---------------------------- MODULE Spec2Model ----------------------------
(***************************************************************************)
(* Model of parabola_optics.py: the geometry engine (class ParabolaOptics) *)
(* and the interactive presenter (update, set_ray_type, reset and the      *)
(* slider / radio-button / button wiring).                                 *)
(*                                                                         *)
(* NUMBERS.  The program computes in IEEE doubles through numpy.  The      *)
(* model computes the same expressions, in the same order, in exact real   *)
(* arithmetic on the numbers (a + b*sqrt(r))/c with a, b, c, r integers,   *)
(* c > 0 and r squarefree, written <<a, b, c, r>>.  The results numpy      *)
(* gives to a division by zero are kept: <<1,0,0,1>> is +inf, <<-1,0,0,1>> *)
(* is -inf and <<0,0,0,1>> is nan, with the IEEE rules for arithmetic and  *)
(* comparison on them.  The doubles have two zeros: <<0,0,1,1>> is +0.0    *)
(* and <<0,0,1,0>> is -0.0; they compare equal, and the sign of a zero is  *)
(* kept through negation, sum, product, quotient and square root as IEEE   *)
(* keeps it, because the sign of a zero divisor decides between +inf and   *)
(* -inf.  A real number that is outside every field Q(sqrt r), such as the *)
(* square root of an irrational, is the single value Irr: it is never      *)
(* compared, only carried.  Rounding error of the doubles is therefore not *)
(* modelled: an equality below is an equality of the real numbers the code *)
(* computes.                                                               *)
(***************************************************************************)
EXTENDS Integers, Sequences, FiniteSets, TLC

(* ----------------------------- integers ------------------------------ *)

Abs(n) == IF n < 0 THEN -n ELSE n

Sgn(n) == IF n < 0 THEN -1 ELSE IF n = 0 THEN 0 ELSE 1

RECURSIVE GCD(_, _)
GCD(m, n) == IF n = 0 THEN Abs(m) ELSE GCD(n, m % Abs(n))

RECURSIVE Newton(_, _)
Newton(n, x) ==
    IF (x + n \div x) \div 2 >= x THEN x ELSE Newton(n, (x + n \div x) \div 2)

\* the integer square root of n >= 1
ISqrt(n) == Newton(n, n)

MaxOf(S) == CHOOSE s \in S : \A t \in S : t <= s

\* the largest s with s*s dividing n (n >= 1)
SquarePart(n) == MaxOf({s \in 1..ISqrt(n) : n % (s * s) = 0})

(* ------------------------------ numbers ------------------------------ *)

NaN    == <<0, 0, 0, 1>>
PosInf == <<1, 0, 0, 1>>
NegInf == <<-1, 0, 0, 1>>
Irr    == <<0, 0, -1, 1>>

IsNaN(x)    == x = NaN
IsInf(x)    == x = PosInf \/ x = NegInf
IsIrr(x)    == x = Irr
IsFinite(x) == x[3] > 0
IsRational(x) == x[3] > 0 /\ x[2] = 0
IsZero(x)   == x[3] > 0 /\ x[1] = 0 /\ x[2] = 0

\* (a + b*sqrt(r))/c with the common factor g > 0 removed and c made positive
Reduce(a, b, c, r, g) ==
    IF c < 0 THEN <<(-a) \div g, (-b) \div g, (-c) \div g, r>>
    ELSE <<a \div g, b \div g, c \div g, r>>

\* canonical form of (a + b*sqrt(r))/c, c # 0, r squarefree
Canon(a, b, c, r) ==
    IF r = 1 THEN Reduce(a + b, 0, c, 1, GCD(a + b, c))
    ELSE IF b = 0 THEN Reduce(a, 0, c, 1, GCD(a, c))
    ELSE Reduce(a, b, c, r, GCD(GCD(a, b), c))

\* the rational n/d, d # 0
Rat(n, d) == Reduce(n, 0, d, 1, GCD(n, d))

Zero == <<0, 0, 1, 1>>
NegZero == <<0, 0, 1, 0>>
One  == <<1, 0, 1, 1>>
Two  == <<2, 0, 1, 1>>
Four == <<4, 0, 1, 1>>

\* the sign of a number that is not nan and not Irr
Sign(x) ==
    IF x[3] = 0 THEN x[1]
    ELSE IF x[3] < 0 THEN CHOOSE s \in {} : TRUE
    ELSE IF x[2] = 0 THEN Sgn(x[1])
    ELSE IF x[1] = 0 THEN Sgn(x[2])
    ELSE IF Sgn(x[1]) = Sgn(x[2]) THEN Sgn(x[1])
    ELSE IF x[1] * x[1] > x[2] * x[2] * x[4] THEN Sgn(x[1])
    ELSE Sgn(x[2])

\* the sign bit of a number that is not nan and not Irr: -1 for -0.0 and
\* the negative numbers, 1 for +0.0 and the positive ones
SignBit(x) ==
    IF x = NegZero THEN -1 ELSE IF x = Zero THEN 1 ELSE Sign(x)

\* the zero of sign bit s
ZeroOf(s) == IF s < 0 THEN NegZero ELSE Zero

\* the infinity of sign bit s
InfOf(s) == IF s < 0 THEN NegInf ELSE PosInf

Neg(x) ==
    IF x[3] < 0 THEN x
    ELSE IF x = Zero THEN NegZero
    ELSE IF x = NegZero THEN Zero
    ELSE <<-x[1], -x[2], x[3], x[4]>>

\* x + y for finite x and y of one field, g the gcd of their denominators
AddFinite(x, y, g) ==
    Canon(x[1] * (y[3] \div g) + y[1] * (x[3] \div g),
          x[2] * (y[3] \div g) + y[2] * (x[3] \div g),
          x[3] * (y[3] \div g),
          IF x[2] # 0 THEN x[4] ELSE y[4])

\* x + y
Add(x, y) ==
    IF IsNaN(x) \/ IsNaN(y) THEN NaN
    ELSE IF IsInf(x) /\ IsInf(y) THEN (IF x = y THEN x ELSE NaN)
    ELSE IF IsInf(x) THEN x
    ELSE IF IsInf(y) THEN y
    ELSE IF IsIrr(x) \/ IsIrr(y) THEN Irr
    ELSE IF IsZero(x) /\ IsZero(y)
         THEN (IF x = NegZero /\ y = NegZero THEN NegZero ELSE Zero)
    ELSE IF IsZero(x) THEN y
    ELSE IF IsZero(y) THEN x
    ELSE IF x[2] # 0 /\ y[2] # 0 /\ x[4] # y[4] THEN Irr
    ELSE AddFinite(x, y, GCD(x[3], y[3]))

Sub(x, y) == Add(x, Neg(y))

\* x * y for finite nonzero x and y; g1 divides x's numerator and y's
\* denominator, g2 y's numerator and x's denominator, g both radicands
MulFinite(x, y, g1, g2, g) ==
    IF x[2] # 0 /\ y[2] # 0 /\ x[4] # y[4]
    THEN (IF x[1] = 0 /\ y[1] = 0
          THEN Canon(0, (x[2] \div g1) * (y[2] \div g2) * g,
                     (x[3] \div g2) * (y[3] \div g1),
                     (x[4] \div g) * (y[4] \div g))
          ELSE Irr)
    ELSE Canon((x[1] \div g1) * (y[1] \div g2)
                 + (x[2] \div g1) * (y[2] \div g2)
                   * (IF x[2] # 0 THEN x[4] ELSE y[4]),
               (x[1] \div g1) * (y[2] \div g2) + (x[2] \div g1) * (y[1] \div g2),
               (x[3] \div g2) * (y[3] \div g1),
               IF x[2] # 0 THEN x[4] ELSE y[4])

\* x * y
Mul(x, y) ==
    IF IsNaN(x) \/ IsNaN(y) THEN NaN
    ELSE IF IsZero(x) \/ IsZero(y)
         THEN (IF IsInf(x) \/ IsInf(y) THEN NaN
               ELSE ZeroOf(SignBit(x) * SignBit(y)))
    ELSE IF IsIrr(x) \/ IsIrr(y) THEN Irr
    ELSE IF IsInf(x) \/ IsInf(y) THEN InfOf(SignBit(x) * SignBit(y))
    ELSE MulFinite(x, y, GCD(GCD(x[1], x[2]), y[3]),
                   GCD(GCD(y[1], y[2]), x[3]), GCD(x[4], y[4]))

\* 1 / y for a finite y # 0
Inv(y) ==
    IF y[2] = 0 THEN Canon(y[3], 0, y[1], 1)
    ELSE Canon(y[3] * y[1], -(y[3] * y[2]),
               y[1] * y[1] - y[2] * y[2] * y[4], y[4])

\* x / y, with numpy's results for a zero divisor
Div(x, y) ==
    IF IsNaN(x) \/ IsNaN(y) THEN NaN
    ELSE IF IsZero(y)
         THEN (IF IsZero(x) THEN NaN
               ELSE InfOf(SignBit(x) * SignBit(y)))
    ELSE IF IsInf(y)
         THEN (IF IsInf(x) THEN NaN ELSE ZeroOf(SignBit(x) * SignBit(y)))
    ELSE IF IsZero(x) THEN ZeroOf(SignBit(x) * SignBit(y))
    ELSE IF IsIrr(x) \/ IsIrr(y) THEN Irr
    ELSE IF IsInf(x) THEN InfOf(SignBit(x) * SignBit(y))
    ELSE Mul(x, Inv(y))

\* a/c < b/d for c, d > 0, by the continued fractions of the two
RECURSIVE RatLess(_, _, _, _)
RatLess(a, c, b, d) ==
    IF a \div c # b \div d THEN a \div c < b \div d
    ELSE IF b % d = 0 THEN FALSE
    ELSE IF a % c = 0 THEN TRUE
    ELSE RatLess(d, b % d, c, a % c)

\* x < y, x <= y, x = y, x # y as IEEE compares them (nan compares false)
Less(x, y) ==
    IF IsNaN(x) \/ IsNaN(y) THEN FALSE
    ELSE IF x = y THEN FALSE
    ELSE IF IsZero(x) /\ IsZero(y) THEN FALSE
    ELSE IF IsInf(x) THEN x = NegInf
    ELSE IF IsInf(y) THEN y = PosInf
    ELSE IF IsRational(x) /\ IsRational(y) THEN RatLess(x[1], x[3], y[1], y[3])
    ELSE Sign(Sub(x, y)) < 0

Eq(x, y) == ~IsNaN(x) /\ ~IsNaN(y) /\ (x = y \/ (IsZero(x) /\ IsZero(y)))

Leq(x, y) == Less(x, y) \/ Eq(x, y)

Neq(x, y) == ~Eq(x, y)

AbsNum(x) == IF x = NegZero THEN Zero
             ELSE IF x[3] > 0 /\ Sign(x) < 0 THEN Neg(x)
             ELSE IF x = NegInf THEN PosInf ELSE x

\* the square root of the rational x > 0; sn*sn divides its numerator and
\* sd*sd its denominator
SqrtRational(x, sn, sd) ==
    Canon(0, sn, sd * (x[3] \div (sd * sd)),
          (x[1] \div (sn * sn)) * (x[3] \div (sd * sd)))

\* np.sqrt
Sqrt(x) ==
    IF IsNaN(x) THEN NaN
    ELSE IF IsIrr(x) THEN Irr
    ELSE IF IsInf(x) THEN (IF x = PosInf THEN PosInf ELSE NaN)
    ELSE IF x[2] # 0 THEN (IF Sign(x) < 0 THEN NaN ELSE Irr)
    ELSE IF x[1] < 0 THEN NaN
    ELSE IF x[1] = 0 THEN x
    ELSE SqrtRational(x, SquarePart(x[1]), SquarePart(x[3]))

(* ------------------------------ vectors ------------------------------ *)

\* np.array([x, y])
Vec(x, y) == <<x, y>>

VAdd(u, v) == <<Add(u[1], v[1]), Add(u[2], v[2])>>

VSub(u, v) == <<Sub(u[1], v[1]), Sub(u[2], v[2])>>

\* k * v
VScale(k, v) == <<Mul(k, v[1]), Mul(k, v[2])>>

\* v / k
VDiv(v, k) == <<Div(v[1], k), Div(v[2], k)>>

\* np.dot
Dot(u, v) == Add(Mul(u[1], v[1]), Mul(u[2], v[2]))

\* np.linalg.norm
Norm(v) == Sqrt(Add(Mul(v[1], v[1]), Mul(v[2], v[2])))

\* np.allclose(a, b): every |a_i - b_i| <= atol + rtol * |b_i|, with numpy's
\* default rtol = 1e-05 and atol = 1e-08
RtolDen == 100000
AtolDen == 100000000

IsClose(a, b) ==
    IF IsFinite(a) /\ IsFinite(b)
    THEN Leq(AbsNum(Sub(a, b)),
             Add(Rat(1, AtolDen), Mul(Rat(1, RtolDen), AbsNum(b))))
    ELSE Eq(a, b)

AllClose(u, v) == IsClose(u[1], v[1]) /\ IsClose(u[2], v[2])

\* np.linspace(lo, hi, num)[i], i in 1..num
LinspaceAt(lo, hi, num, i) ==
    IF num = 1 THEN lo
    ELSE IF i = num THEN hi
    ELSE Add(Mul(Rat(i - 1, 1), Div(Sub(hi, lo), Rat(num - 1, 1))), lo)

Linspace(lo, hi, num) == [i \in 1..num |-> LinspaceAt(lo, hi, num, i)]

(* ----------------------- class ParabolaOptics ------------------------ *)

\* the default of __init__'s focus parameter
DefaultFocus == 1

\* __init__: the attributes of a new object
ParabolaOptics(f) == [focus |-> f, directrix |-> Neg(f)]

\* y = x^2/(4f)
parabola_y(f, x) == Div(Mul(x, x), Mul(Four, f))

get_tangent_slope(f, x) == Div(x, Mul(Two, f))

\* reflect_ray returns None or the tuple (intersection, reflected, t)
None == <<>>

\* the branch for a ray that starts at the focus: None or <<t, intersection>>
FocusBranch(f, ray_dir) ==
    LET dx == ray_dir[1]
        dy == ray_dir[2]
        Hit(t) == <<t, Vec(Add(Zero, Mul(t, dx)), Add(f, Mul(t, dy)))>>
        Pick(t, t_minus) ==
            IF Less(t, Zero)
            THEN (IF Less(t_minus, Zero) THEN None ELSE Hit(t_minus))
            ELSE Hit(t)
        Roots(a, b, discriminant) ==
            IF Less(discriminant, Zero) THEN None
            ELSE Pick(Div(Add(Neg(b), Sqrt(discriminant)), Mul(Two, a)),
                      Div(Sub(Neg(b), Sqrt(discriminant)), Mul(Two, a)))
        Solve(a, b, c) == Roots(a, b, Sub(Mul(b, b), Mul(Mul(Four, a), c)))
    IN  Solve(Div(Mul(dx, dx), Mul(Four, f)), Neg(dy), Neg(f))

\* a vertical branch that returns None only for t < 0, as the general
\* branch does
VerticalBranchAcceptsZero(f, ray_start, ray_dir) ==
    LET x == ray_start[1]
        Hit(y_parabola, t) ==
            IF Less(t, Zero) THEN None ELSE <<t, Vec(x, y_parabola)>>
        At(y_parabola) ==
            IF Eq(ray_dir[2], Zero) THEN None
            ELSE Hit(y_parabola, Div(Sub(y_parabola, ray_start[2]), ray_dir[2]))
    IN  At(parabola_y(f, x))

\* the branch for a vertical ray, ray_dir[0] == 0
VerticalBranch(f, ray_start, ray_dir) ==
    LET x == ray_start[1]
        Hit(y_parabola, t) ==
            IF Leq(t, Zero) THEN None ELSE <<t, Vec(x, y_parabola)>>
        At(y_parabola) ==
            IF Eq(ray_dir[2], Zero) THEN None
            ELSE Hit(y_parabola, Div(Sub(y_parabola, ray_start[2]), ray_dir[2]))
    IN  At(parabola_y(f, x))

\* a general branch that falls back to the larger root when the smaller
\* one is negative, as the focus branch does
GeneralBranchFallsBack(f, ray_start, ray_dir) ==
    LET Hit(t) == <<t, Vec(Add(ray_start[1], Mul(t, ray_dir[1])),
                           Add(ray_start[2], Mul(t, ray_dir[2])))>>
        Pick(t, t_plus) ==
            IF Less(t, Zero)
            THEN (IF Less(t_plus, Zero) THEN None ELSE Hit(t_plus))
            ELSE Hit(t)
        Roots(a, b, discriminant) ==
            IF Less(discriminant, Zero) THEN None
            ELSE Pick(Div(Sub(Neg(b), Sqrt(discriminant)), Mul(Two, a)),
                      Div(Add(Neg(b), Sqrt(discriminant)), Mul(Two, a)))
        Solve(a, b, c) == Roots(a, b, Sub(Mul(b, b), Mul(Mul(Four, a), c)))
    IN  Solve(Mul(ray_dir[1], ray_dir[1]),
              Sub(Mul(Mul(Two, ray_start[1]), ray_dir[1]),
                  Mul(Mul(Four, f), ray_dir[2])),
              Sub(Mul(ray_start[1], ray_start[1]),
                  Mul(Mul(Four, f), ray_start[2])))

\* the branch for every other ray
GeneralBranch(f, ray_start, ray_dir) ==
    LET Hit(t) ==
            IF Less(t, Zero) THEN None
            ELSE <<t, Vec(Add(ray_start[1], Mul(t, ray_dir[1])),
                          Add(ray_start[2], Mul(t, ray_dir[2])))>>
        Roots(a, b, discriminant) ==
            IF Less(discriminant, Zero) THEN None
            ELSE Hit(Div(Sub(Neg(b), Sqrt(discriminant)), Mul(Two, a)))
        Solve(a, b, c) == Roots(a, b, Sub(Mul(b, b), Mul(Mul(Four, a), c)))
    IN  Solve(Mul(ray_dir[1], ray_dir[1]),
              Sub(Mul(Mul(Two, ray_start[1]), ray_dir[1]),
                  Mul(Mul(Four, f), ray_dir[2])),
              Sub(Mul(ray_start[1], ray_start[1]),
                  Mul(Mul(Four, f), ray_start[2])))

\* the dispatch on the ray: None or <<t, intersection>>
Intersect(f, ray_start, ray_dir) ==
    IF AllClose(ray_start, Vec(Zero, f)) THEN FocusBranch(f, ray_dir)
    ELSE IF Eq(ray_dir[1], Zero) THEN VerticalBranch(f, ray_start, ray_dir)
    ELSE GeneralBranch(f, ray_start, ray_dir)

\* a reflection that mirrors the incident direction in the tangent's
\* perpendicular instead of the tangent: incident - 2 (incident . t) t
ReflectionAboutNormal(f, intersection, ray_dir) ==
    LET Tangent(tangent_slope) ==
            VDiv(Vec(One, tangent_slope), Norm(Vec(One, tangent_slope)))
        Reflected(incident, tangent) ==
            VSub(incident, VScale(Mul(Two, Dot(incident, tangent)), tangent))
    IN  Reflected(VDiv(ray_dir, Norm(ray_dir)),
                  Tangent(get_tangent_slope(f, intersection[1])))

\* the law of reflection at the intersection: the reflected direction
Reflection(f, intersection, ray_dir) ==
    LET NormalSlope(tangent_slope) ==
            IF Neq(tangent_slope, Zero)
            THEN Div(Neg(One), tangent_slope) ELSE PosInf
        Normal(normal_slope) ==
            IF Eq(normal_slope, PosInf) THEN Vec(Zero, One)
            ELSE VDiv(Vec(One, normal_slope), Norm(Vec(One, normal_slope)))
        Reflected(incident, normal) ==
            VSub(incident, VScale(Mul(Two, Dot(incident, normal)), normal))
    IN  Reflected(VDiv(ray_dir, Norm(ray_dir)),
                  Normal(NormalSlope(get_tangent_slope(f, intersection[1]))))

\* the tuple reflect_ray returns for the branch's result r
Returned(f, ray_dir, r) ==
    IF r = None THEN None
    ELSE <<r[2], Reflection(f, r[2], ray_dir), r[1]>>

reflect_ray(f, ray_start, ray_dir) ==
    Returned(f, ray_dir, Intersect(f, ray_start, ray_dir))

\* the fixed height parallel rays start at and the x range of both bundles
RayStartY == 10
XRangeLo  == -3
XRangeHi  == 3

generate_parallel_rays(num_rays) ==
    [i \in 1..num_rays |->
        <<Vec(LinspaceAt(Rat(XRangeLo, 1), Rat(XRangeHi, 1), num_rays, i),
              Rat(RayStartY, 1)),
          Vec(Zero, Neg(One))>>]

\* the ray from the focus to the point of the parabola at x, normalised
FocalRay(f, x) ==
    LET Ray(ray_dir) == <<Vec(Zero, f), VDiv(ray_dir, Norm(ray_dir))>>
    IN  Ray(Vec(Sub(x, Zero), Sub(parabola_y(f, x), f)))

generate_focal_rays(f, num_rays) ==
    [i \in 1..num_rays |->
        FocalRay(f, LinspaceAt(Rat(XRangeLo, 1), Rat(XRangeHi, 1), num_rays, i))]

(* ------------------------------- state ------------------------------- *)

VARIABLES
    optics,            \* the ParabolaOptics object: [focus, directrix]
    s_focus,           \* s_focus.val
    s_num_rays,        \* s_num_rays.val
    ray_type_var,      \* the index of the selected radio button
    current_ray_type,  \* the global current_ray_type
    ray_lines,         \* the list of drawn lines
    last_update,       \* the locals (focus, num_rays, ray_type) of the last update
    last_event,        \* the handler that returned last
    call               \* a caller's call of reflect_ray: <<>> or
                       \* <<ray_start, ray_dir, result>>

vars == <<optics, s_focus, s_num_rays, ray_type_var, current_ray_type,
          ray_lines, last_update, last_event, call>>

(* ----------------------------- presenter ----------------------------- *)

\* Slider(ax_focus, ..., 0.5, 5.0, valinit=1.0)
SliderFocusMin  == Rat(1, 2)
SliderFocusMax  == Rat(5, 1)
SliderFocusInit == Rat(1, 1)

\* Slider(ax_num_rays, ..., 1, 15, valinit=5, valstep=1)
SliderNumMin  == 1
SliderNumMax  == 15
SliderNumInit == 5

\* the labels of the radio buttons, in English for the Chinese strings of
\* the source: index 0 is "parallel incident rays", index 1 is "rays
\* emitted from the focus"; active=0
RadioLabels == <<"parallel incident rays", "rays emitted from the focus">>
RadioInit   == 0

\* np.linspace(0, t, 50) and np.linspace(0, 12, 50) in update
LineSamples     == 50
ReflectedLength == 12

\* The line ax.plot draws through the points start + s * dir for s in
\* np.linspace(0, stop, 50): its colour, its first and its last point.
PlotLine(color, start, dir, stop) ==
    [color |-> color,
     first |-> VAdd(start, VScale(LinspaceAt(Zero, stop, LineSamples, 1), dir)),
     last  |-> VAdd(start,
                    VScale(LinspaceAt(Zero, stop, LineSamples, LineSamples), dir))]

\* the lines one ray adds to ray_lines: none when result is None
RayLines(ray_start, ray_dir, result) ==
    IF result # None
    THEN <<PlotLine("b", ray_start, ray_dir, result[3]),
           PlotLine("r", result[1], result[2], Rat(ReflectedLength, 1))>>
    ELSE <<>>

\* the body of "for ray_start, ray_dir in rays", from ray i on
RECURSIVE DrawRays(_, _, _, _)
DrawRays(f, rays, i, lines) ==
    IF i > Len(rays) THEN lines
    ELSE DrawRays(f, rays, i + 1,
             lines \o RayLines(rays[i][1], rays[i][2],
                               reflect_ray(f, rays[i][1], rays[i][2])))

\* the state the handlers read and write, as one record
State ==
    [optics |-> optics, s_focus |-> s_focus, s_num_rays |-> s_num_rays,
     ray_type_var |-> ray_type_var, current_ray_type |-> current_ray_type,
     ray_lines |-> ray_lines, last_update |-> last_update]

\* an update that draws without removing the lines of the last drawing
updateWithoutClear(st) ==
    LET focus    == st.s_focus
        num_rays == st.s_num_rays
        ray_type == st.current_ray_type
        Draw(rays) == DrawRays(focus, rays, 1, st.ray_lines)
    IN  [st EXCEPT !.optics = [st.optics EXCEPT !.focus = focus],
                   !.ray_lines =
                       Draw(IF ray_type = "parallel"
                            THEN generate_parallel_rays(num_rays)
                            ELSE generate_focal_rays(focus, num_rays)),
                   !.last_update = <<focus, num_rays, ray_type>>]

\* update(val)
update(st) ==
    LET focus    == st.s_focus
        num_rays == st.s_num_rays
        ray_type == st.current_ray_type
        Draw(rays) == DrawRays(focus, rays, 1, <<>>)
    IN  [st EXCEPT !.optics = [st.optics EXCEPT !.focus = focus],
                   !.ray_lines =
                       Draw(IF ray_type = "parallel"
                            THEN generate_parallel_rays(num_rays)
                            ELSE generate_focal_rays(focus, num_rays)),
                   !.last_update = <<focus, num_rays, ray_type>>]

\* set_ray_type(label)
set_ray_type(st, label) ==
    update([st EXCEPT !.current_ray_type =
                IF label = RadioLabels[1] THEN "parallel" ELSE "focal"])

\* Slider.set_val(val) of s_focus, which calls the observer update
s_focus_set_val(st, val) == update([st EXCEPT !.s_focus = val])

\* Slider.set_val(val) of s_num_rays, which calls the observer update
s_num_rays_set_val(st, val) == update([st EXCEPT !.s_num_rays = val])

\* RadioButtons.set_active(index), which calls the observer set_ray_type
ray_type_var_set_active(st, index) ==
    set_ray_type([st EXCEPT !.ray_type_var = index], RadioLabels[index + 1])

\* Slider.reset(): set_val(valinit) when the value is not valinit
s_focus_reset(st) ==
    IF st.s_focus # SliderFocusInit
    THEN s_focus_set_val(st, SliderFocusInit) ELSE st

s_num_rays_reset(st) ==
    IF st.s_num_rays # SliderNumInit
    THEN s_num_rays_set_val(st, SliderNumInit) ELSE st

\* a reset that leaves the ray-count slider alone
resetWithoutNumRays(st) ==
    update([ray_type_var_set_active(s_focus_reset(st), RadioInit)
               EXCEPT !.current_ray_type = "parallel"])

\* reset(event)
reset(st) ==
    update([ray_type_var_set_active(s_num_rays_reset(s_focus_reset(st)),
                                    RadioInit)
               EXCEPT !.current_ray_type = "parallel"])

\* the values the model moves the focal-length slider to: the multiples of
\* 1/2 up to MaxFocusSteps/2 that the slider's range holds
MaxFocusSteps == 4

FocusVals ==
    {v \in {Rat(k, 2) : k \in 1..MaxFocusSteps} :
        Leq(SliderFocusMin, v) /\ Leq(v, SliderFocusMax)}

\* the values the model moves the ray-count slider to: those of the
\* slider's range up to MaxNumRays
MaxNumRays == 8

NumRaysVals == {n \in SliderNumMin..SliderNumMax : n <= MaxNumRays}

Becomes(st, event) ==
    /\ optics' = st.optics
    /\ s_focus' = st.s_focus
    /\ s_num_rays' = st.s_num_rays
    /\ ray_type_var' = st.ray_type_var
    /\ current_ray_type' = st.current_ray_type
    /\ ray_lines' = st.ray_lines
    /\ last_update' = st.last_update
    /\ last_event' = event
    /\ UNCHANGED call

\* the module as loaded: optics = ParabolaOptics(), the widgets at their
\* initial values, ray_lines = [] and no update yet
Init ==
    /\ optics = ParabolaOptics(Rat(DefaultFocus, 1))
    /\ s_focus = SliderFocusInit
    /\ s_num_rays = SliderNumInit
    /\ ray_type_var = RadioInit
    /\ current_ray_type = "parallel"
    /\ ray_lines = <<>>
    /\ last_update = <<>>
    /\ last_event = "load"
    /\ call = <<>>

\* the main program: the first update(None), then the window is shown
Main ==
    /\ last_event = "load"
    /\ Becomes(update(State), "main")

Shown == last_event # "load"

\* the user moves the focal-length slider to val
FocusSliderMoved(val) ==
    /\ Shown
    /\ val # s_focus
    /\ Becomes(s_focus_set_val(State, val), "s_focus")

\* the user moves the ray-count slider to val
NumRaysSliderMoved(val) ==
    /\ Shown
    /\ val # s_num_rays
    /\ Becomes(s_num_rays_set_val(State, val), "s_num_rays")

\* the user clicks radio button index
RadioClicked(index) ==
    /\ Shown
    /\ Becomes(ray_type_var_set_active(State, index), "ray_type_var")

\* the user clicks the reset button
ResetClicked ==
    /\ Shown
    /\ Becomes(reset(State), "reset")

Next ==
    \/ Main
    \/ \E val \in FocusVals : FocusSliderMoved(val)
    \/ \E val \in NumRaysVals : NumRaysSliderMoved(val)
    \/ \E index \in {0, 1} : RadioClicked(index)
    \/ ResetClicked

Spec == Init /\ [][Next]_vars

(* ------------------------ a caller of the engine --------------------- *)

\* The class used directly: a caller constructs a ParabolaOptics with any
\* focus, calls reflect_ray with any ray and reads the result.

MaxCoord == 2
MaxDir   == 2

\* the focus values a caller constructs the object with: -1/2, 0, 1/2, ...
CallerFocusVals == {Rat(k, 2) : k \in -1..MaxFocusSteps}

GridPoints == {Vec(Rat(x, 1), Rat(y, 1)) : x \in -MaxCoord..MaxCoord,
                                           y \in -MaxCoord..MaxCoord}

\* a point np.allclose takes for the focus (0, f) without being it
NearFocus(f) == Vec(Zero, Add(f, Rat(1, 1000000)))

RayStarts(f) == GridPoints \cup {Vec(Zero, f), NearFocus(f)}

RayDirs == {Vec(Rat(x, 1), Rat(y, 1)) : x \in -MaxDir..MaxDir,
                                        y \in -MaxDir..MaxDir}

\* the x of the points of the parabola a caller aims at from the focus
Targets == {Rat(k, 2) : k \in (-2 * MaxCoord)..(2 * MaxCoord)}

\* the vector from the focus (0, f) to the point of the parabola at x
TowardCurve(f, x) == Vec(Sub(x, Zero), Sub(parabola_y(f, x), f))

\* the directions of one line a caller may pass: v, 2v and v/|v|
Scalings(v) == {v, VScale(Two, v), VDiv(v, Norm(v))}

NoCall == <<>>

InitCaller == Init

\* optics = ParabolaOptics(f)
Construct(f) ==
    /\ call = NoCall
    /\ optics' = ParabolaOptics(f)
    /\ UNCHANGED <<s_focus, s_num_rays, ray_type_var, current_ray_type,
                   ray_lines, last_update, last_event, call>>

\* result = optics.reflect_ray(ray_start, ray_dir)
Call(ray_start, ray_dir) ==
    /\ call = NoCall
    /\ call' = <<ray_start, ray_dir,
                 reflect_ray(optics.focus, ray_start, ray_dir)>>
    /\ UNCHANGED <<optics, s_focus, s_num_rays, ray_type_var,
                   current_ray_type, ray_lines, last_update, last_event>>

\* the caller is done with the result
Return ==
    /\ call # NoCall
    /\ call' = NoCall
    /\ UNCHANGED <<optics, s_focus, s_num_rays, ray_type_var,
                   current_ray_type, ray_lines, last_update, last_event>>

NextCaller ==
    \/ \E f \in CallerFocusVals : Construct(f)
    \/ \E ray_start \in RayStarts(optics.focus), ray_dir \in RayDirs :
           Call(ray_start, ray_dir)
    \/ \E x \in Targets :
           \E ray_dir \in Scalings(TowardCurve(optics.focus, x)) :
               Call(Vec(Zero, optics.focus), ray_dir)
    \/ Return

SpecCaller == InitCaller /\ [][NextCaller]_vars

(* ------------------- properties of a call of reflect_ray ------------- *)

FocusIsPositive == Less(Zero, optics.focus)

\* the branch of reflect_ray the call in `call` took
InFocusBranch    == AllClose(call[1], Vec(Zero, optics.focus))
InVerticalBranch == ~InFocusBranch /\ Eq(call[2][1], Zero)
InGeneralBranch  == ~InFocusBranch /\ ~Eq(call[2][1], Zero)

\* The quadratic A t^2 + B t + C = 0 of the points origin + t * direction
\* that lie on y = x^2/(4f), and its discriminant.
QuadA(d)       == Mul(d[1], d[1])
QuadB(f, o, d) == Sub(Mul(Mul(Two, o[1]), d[1]), Mul(Mul(Four, f), d[2]))
QuadC(f, o)    == Sub(Mul(o[1], o[1]), Mul(Mul(Four, f), o[2]))
QuadD(f, o, d) == Sub(Mul(QuadB(f, o, d), QuadB(f, o, d)),
                      Mul(Mul(Four, QuadA(d)), QuadC(f, o)))
QuadAt(f, o, d, t) ==
    Add(Add(Mul(QuadA(d), Mul(t, t)), Mul(QuadB(f, o, d), t)), QuadC(f, o))

\* the ray origin + t * direction, t >= 0, has a point on the parabola
MeetsForward(f, o, d) ==
    IF Eq(d[1], Zero)
    THEN Leq(Zero, Div(Neg(QuadC(f, o)), QuadB(f, o, d)))
    ELSE /\ Leq(Zero, QuadD(f, o, d))
         /\ (Leq(QuadB(f, o, d), Zero) \/ Leq(QuadC(f, o), Zero))

\* r is a positive multiple of the vector from point p to point q
PointsFromTo(r, p, q) ==
    /\ Eq(Sub(Mul(r[1], Sub(q[2], p[2])), Mul(r[2], Sub(q[1], p[1]))), Zero)
    /\ Less(Zero, Dot(r, VSub(q, p)))

\* C1 as stated: a ray from the focus (0, f), f > 0, aimed at the point
\* (x, x^2/(4f)) of the parabola, x # 0, hits that point and is reflected in
\* a direction whose y-component is 0 and whose x-component has the sign of x.
FocusRayReflectsAcrossAxis ==
    \A x \in Targets \ {Zero} :
        \A d \in Scalings(TowardCurve(optics.focus, x)) :
            (/\ FocusIsPositive
             /\ call # NoCall
             /\ call[1] = Vec(Zero, optics.focus)
             /\ call[2] = d)
            => /\ call[3] # None
               /\ call[3][1] = Vec(x, Div(Mul(x, x), Mul(Four, optics.focus)))
               /\ Eq(call[3][2][2], Zero)
               /\ Sign(call[3][2][1]) = Sign(x)

\* C1 amended: a ray from the focus (0, f), f > 0, aimed at the point
\* (x, x^2/(4f)) of the parabola, x # 0, hits that point and is reflected
\* parallel to the axis of the parabola: the reflected direction is (0, 1),
\* its x-component 0 and its y-component positive.
FocusRayReflectsAlongAxis ==
    \A x \in Targets \ {Zero} :
        \A d \in Scalings(TowardCurve(optics.focus, x)) :
            (/\ FocusIsPositive
             /\ call # NoCall
             /\ call[1] = Vec(Zero, optics.focus)
             /\ call[2] = d)
            => /\ call[3] # None
               /\ call[3][1] = Vec(x, Div(Mul(x, x), Mul(Four, optics.focus)))
               /\ call[3][2] = Vec(Zero, One)

\* a ray from the focus aimed at a point of the parabola off the axis has
\* been reflected
FocusRayReflected ==
    /\ FocusIsPositive
    /\ call # NoCall
    /\ call[1] = Vec(Zero, optics.focus)
    /\ \E x \in Targets \ {Zero} :
           /\ call[2] \in Scalings(TowardCurve(optics.focus, x))
           /\ call[2] # TowardCurve(optics.focus, x)
    /\ call[3] # None

\* C2: a vertical downward ray (0, -1) from (x0, y0) above the parabola,
\* y0 > x0^2/(4f), f > 0, hits (x0, x0^2/(4f)) at t = y0 - x0^2/(4f) and is
\* reflected toward the focus (0, f).
ParallelRayReflectsToFocus ==
    (/\ FocusIsPositive
     /\ call # NoCall
     /\ call[2] = Vec(Zero, Neg(One))
     /\ Less(parabola_y(optics.focus, call[1][1]), call[1][2]))
    => /\ call[3] # None
       /\ call[3][1] = Vec(call[1][1], parabola_y(optics.focus, call[1][1]))
       /\ call[3][3] = Sub(call[1][2], parabola_y(optics.focus, call[1][1]))
       /\ PointsFromTo(call[3][2], call[3][1], Vec(Zero, optics.focus))

\* C3: for f > 0 and a nonzero direction, a ray that meets the parabola at
\* no t >= 0 gets the absent result, and no result carries a negative t.
NoForwardMeetingIsAbsent ==
    (/\ FocusIsPositive
     /\ call # NoCall
     /\ call[2] # Vec(Zero, Zero))
    => /\ ~MeetsForward(optics.focus, call[1], call[2]) => call[3] = None
       /\ call[3] # None => ~Less(call[3][3], Zero)

\* C5: no ParabolaOptics has a focus <= 0, and a zero direction passed to
\* reflect_ray is not carried into the computation (the code has no
\* invalid-parameter outcome; the absent result is the nearest to one).
DegenerateParametersRejected ==
    /\ FocusIsPositive
    /\ (call # NoCall /\ call[2] = Vec(Zero, Zero)) => call[3] = None

\* C8: in the general branch (start not taken for the focus, dx # 0, f > 0)
\* a hit is returned exactly when the discriminant is >= 0 and the smaller
\* root is >= 0 (that is B <= 0 and C >= 0); t is then the smaller root, the
\* intersection is start + t * dir, and no point of the ray before t lies on
\* the parabola.  A negative smaller root gives None whatever the larger is.
GeneralBranchTakesSmallerRoot ==
    (FocusIsPositive /\ call # NoCall /\ InGeneralBranch)
    => /\ call[3] # None <=>
              /\ Leq(Zero, QuadD(optics.focus, call[1], call[2]))
              /\ Leq(QuadB(optics.focus, call[1], call[2]), Zero)
              /\ Leq(Zero, QuadC(optics.focus, call[1]))
       /\ call[3] # None =>
              /\ Leq(Zero, call[3][3])
              /\ IsZero(QuadAt(optics.focus, call[1], call[2], call[3][3]))
              /\ Leq(Add(Mul(Mul(Two, QuadA(call[2])), call[3][3]),
                         QuadB(optics.focus, call[1], call[2])), Zero)
              /\ call[3][1] = VAdd(call[1], VScale(call[3][3], call[2]))
              /\ \A k \in 0..3 :
                     Less(Rat(k, 4), One) /\ ~IsZero(call[3][3])
                     => ~IsZero(QuadAt(optics.focus, call[1], call[2],
                                       Mul(Rat(k, 4), call[3][3])))

\* the general branch has returned a hit at some t > 0
GeneralBranchHit ==
    /\ FocusIsPositive
    /\ call # NoCall
    /\ InGeneralBranch
    /\ call[3] # None
    /\ Less(Zero, call[3][3])

\* C9: in the vertical branch (start not taken for the focus, dx = 0, f > 0)
\* dy = 0 gives None; otherwise a hit at (x0, x0^2/(4f)) is returned exactly
\* when t = (x0^2/(4f) - y0)/dy > 0, so a vertical ray that starts on the
\* parabola gets None, while a ray of the general branch that starts on the
\* parabola with smaller root 0 gets a hit with t = 0.
VerticalBranchNeedsPositiveT ==
    /\ (FocusIsPositive /\ call # NoCall /\ InVerticalBranch)
       => IF Eq(call[2][2], Zero) THEN call[3] = None
          ELSE /\ call[3] # None <=>
                      Less(Zero, Div(Sub(Div(Mul(call[1][1], call[1][1]),
                                             Mul(Four, optics.focus)),
                                         call[1][2]),
                                     call[2][2]))
               /\ call[3] # None =>
                      /\ call[3][1] = Vec(call[1][1],
                                          Div(Mul(call[1][1], call[1][1]),
                                              Mul(Four, optics.focus)))
                      /\ call[3][3] = Div(Sub(call[3][1][2], call[1][2]),
                                          call[2][2])
    /\ (/\ FocusIsPositive /\ call # NoCall /\ InGeneralBranch
        /\ IsZero(QuadC(optics.focus, call[1]))
        /\ Leq(QuadB(optics.focus, call[1], call[2]), Zero))
       => /\ call[3] # None
          /\ Eq(call[3][3], Zero)
          /\ call[3][1] = call[1]

\* a vertical ray that starts on the parabola has got None
VerticalRayFromCurveAbsent ==
    /\ FocusIsPositive
    /\ call # NoCall
    /\ InVerticalBranch
    /\ ~Eq(call[2][2], Zero)
    /\ IsZero(QuadC(optics.focus, call[1]))
    /\ call[3] = None

(* --------------------- properties of the presenter ------------------- *)

\* the x of ray i of a bundle of n rays: n points evenly spaced on [-3, 3]
BundleX(n, i) ==
    IF n = 1 THEN Rat(XRangeLo, 1)
    ELSE Add(Rat(XRangeLo, 1), Rat((XRangeHi - XRangeLo) * (i - 1), n - 1))

\* C4: with the focal bundle drawn for a focal length of the slider's range
\* and N rays, every ray was reflected at a finite hit equal to its target
\* (x, x^2/(4f)) without a division by zero; the ray aimed at the vertex hits
\* (0, 0) at t = f.  (The reflected line of ray i starts at the hit the call
\* returned and the incident line ends at focus + t * direction.)
FocalBundleHitsTargets ==
    (Shown /\ current_ray_type = "focal")
    => /\ Len(ray_lines) = 2 * s_num_rays
       /\ \A i \in 1..s_num_rays :
              /\ ray_lines[2 * i].first =
                     Vec(BundleX(s_num_rays, i),
                         Div(Mul(BundleX(s_num_rays, i), BundleX(s_num_rays, i)),
                             Mul(Four, optics.focus)))
              /\ ray_lines[2 * i - 1].last = ray_lines[2 * i].first

\* C6: when the reset handler has returned, the focal length is 1.0, the ray
\* count is 5, the radio selection and current_ray_type are parallel, and the
\* last update ran with exactly these three values.
ResetRestoresDefaults ==
    last_event = "reset"
    => /\ s_focus = Rat(1, 1)
       /\ optics.focus = Rat(1, 1)
       /\ s_num_rays = 5
       /\ ray_type_var = 0
       /\ current_ray_type = "parallel"
       /\ last_update = <<Rat(1, 1), 5, "parallel">>

\* the reset handler has returned
ResetReturned == last_event = "reset"

\* C7: the directrix attribute of the ParabolaOptics object is the negation
\* of its focus attribute.
DirectrixIsMinusFocus == optics.directrix = Neg(optics.focus)

\* the rays of the bundle for the current mode, count and focal length
CurrentRays ==
    IF current_ray_type = "parallel"
    THEN generate_parallel_rays(s_num_rays)
    ELSE generate_focal_rays(s_focus, s_num_rays)

\* the rays of CurrentRays before ray i that reflect_ray returns a hit for
HitsBefore(i) ==
    Cardinality({j \in 1..(i - 1) :
        reflect_ray(s_focus, CurrentRays[j][1], CurrentRays[j][2]) # None})

\* C10: when a handler has returned, the Parabola holds the current focal
\* length, the last update ran with the current focal length, count and mode,
\* and ray_lines is exactly: for each ray of the current bundle with a hit,
\* in order, its incident line and its reflected line; nothing for a ray
\* without a hit; nothing else.
NoStaleDrawing ==
    Shown
    => /\ optics.focus = s_focus
       /\ last_update = <<s_focus, s_num_rays, current_ray_type>>
       /\ Len(CurrentRays) = s_num_rays
       /\ Len(ray_lines) = 2 * HitsBefore(s_num_rays + 1)
       /\ \A i \in 1..s_num_rays :
              reflect_ray(s_focus, CurrentRays[i][1], CurrentRays[i][2]) # None
              => /\ ray_lines[2 * HitsBefore(i) + 1] =
                        PlotLine("b", CurrentRays[i][1], CurrentRays[i][2],
                                 reflect_ray(s_focus, CurrentRays[i][1],
                                             CurrentRays[i][2])[3])
                 /\ ray_lines[2 * HitsBefore(i) + 2] =
                        PlotLine("r",
                                 reflect_ray(s_focus, CurrentRays[i][1],
                                             CurrentRays[i][2])[1],
                                 reflect_ray(s_focus, CurrentRays[i][1],
                                             CurrentRays[i][2])[2],
                                 Rat(12, 1))

\* a user action has redrawn the rays with values that are not the defaults
RedrawnAfterUserAction ==
    /\ last_event \in {"s_focus", "s_num_rays", "ray_type_var"}
    /\ s_focus # SliderFocusInit
    /\ s_num_rays # SliderNumInit
    /\ current_ray_type = "focal"
    /\ Len(ray_lines) > 0

=============================================================================
